---- MODULE Spec2Model ----
(***************************************************************************)
(* The persistence and authentication core of cozy-journal.                *)
(*                                                                         *)
(* The repository holds two builds of the same core over the same two      *)
(* tables (users, journal_entries) of journal.db:                          *)
(*   "app_broken"  src/frontend/app_broken.py  (salted hash, search,       *)
(*                 update, delete by entry id only, check-then-insert)     *)
(*   "app"         src/frontend/app.py         (fixed salt, insert guarded *)
(*                 by the UNIQUE constraint only, delete by id and owner,  *)
(*                 search done by the entries page)                        *)
(* The variable `variant` says which build runs; it never changes.         *)
(*                                                                         *)
(* Text values (title, content, search term) are sequences of one-letter   *)
(* strings, so that LIKE and substring search are computed, not assumed.   *)
(* Columns no operation reads (users.created_at, journal_entries.mood of   *)
(* "app") are left out of the rows.                                        *)
(***************************************************************************)
EXTENDS Integers, Sequences, FiniteSets, TLC

VARIABLES
    variant,     \* which build runs
    users,       \* table users: a set of rows
    entries,     \* table journal_entries: a set of rows
    seqUsers,    \* sqlite_sequence of users (AUTOINCREMENT: largest id ever used)
    seqEntries,  \* sqlite_sequence of journal_entries
    now,         \* CURRENT_TIMESTAMP, in whole seconds
    last,        \* the last core call: its arguments, what it returned, rows affected
    session,     \* st.session_state.user of each browser session: the signed-in user
    editing,     \* st.session_state.editing_entry of each browser session (0: none)
    reg,         \* history: username -> the password and id of its successful registration
    calls,       \* concurrent create_user calls: process -> position and locals
    writer,      \* the process holding SQLite's write lock (0: nobody)
    pending,     \* the uncommitted users rows of the writer
    succ         \* history: username -> number of create_user calls that returned True

vars == <<variant, users, entries, seqUsers, seqEntries, now, last, session,
          editing, reg, calls, writer, pending, succ>>

storeVars == <<users, entries, seqUsers, seqEntries>>
raceVars == <<calls, writer, pending, succ>>
pageVars == <<session, editing>>

----------------------------------------------------------------------------
(* Bounds of the model *)

MaxUsers == 2
MaxEntries == 2
MaxClock == 1
NProcs == 2

(* Program constants *)

Iterations == 100000

Variants == {"app_broken", "app"}
\* src/app.py is a third program, "mock": a login page with no database behind it
Builds == Variants \cup {"mock"}

(* Input sets *)

Usernames == {"", "al", "bo"}
Passwords == {"", "pw", "qx"}
\* os.urandom(32): the bytes drawn, here one byte long
Salts == {<<10>>, <<171>>, <<255>>}
EntryIds == 1..MaxEntries
Procs == 1..NProcs
\* The browser sessions, each with a st.session_state of its own
Browsers == {1, 2}

----------------------------------------------------------------------------
(* Text *)

Lower(c) ==
    CASE c = "A" -> "a"
      [] c = "B" -> "b"
      [] OTHER -> c

\* str.lower() of a text
LowerText(s) == [i \in 1..Len(s) |-> Lower(s[i])]

\* Python's `t in s` on lowered texts
SubstringOf(t, s) ==
    \E i \in 0..(Len(s) - Len(t)) :
        \A j \in 1..Len(t) : s[i + j] = t[j]

\* SQLite's LIKE without ESCAPE: % matches any run of characters, _ matches any one
\* character, and any other character matches itself, ASCII letters without regard
\* to case
RECURSIVE Like(_, _)
Like(pat, s) ==
    IF pat = <<>> THEN s = <<>>
    ELSE IF Head(pat) = "%"
         THEN Like(Tail(pat), s) \/ (s # <<>> /\ Like(pat, Tail(s)))
    ELSE /\ s # <<>>
         /\ (Head(pat) = "_" \/ Lower(Head(pat)) = Lower(Head(s)))
         /\ Like(Tail(pat), Tail(s))

\* f'%{search_term}%'
LikePattern(term) == <<"%">> \o term \o <<"%">>

----------------------------------------------------------------------------
(* Password hashing *)

HexDigits == <<"0", "1", "2", "3", "4", "5", "6", "7",
               "8", "9", "a", "b", "c", "d", "e", "f">>

\* bytes.hex()
RECURSIVE Hex(_)
Hex(bytes) ==
    IF bytes = <<>> THEN <<>>
    ELSE <<HexDigits[(Head(bytes) \div 16) + 1], HexDigits[(Head(bytes) % 16) + 1]>>
         \o Hex(Tail(bytes))

HexValue(d) == (CHOOSE i \in 1..16 : HexDigits[i] = d) - 1

\* bytes.fromhex()
RECURSIVE FromHex(_)
FromHex(hex) ==
    IF Len(hex) < 2 THEN <<>>
    ELSE <<HexValue(hex[1]) * 16 + HexValue(hex[2])>> \o FromHex(Tail(Tail(hex)))

\* hashlib.pbkdf2_hmac('sha256', password, salt, 100000).hex(): a one-way function
\* of the password, the salt and the iteration count, taken to be collision free
Pbkdf2(password, salt) == [pw |-> password, salt |-> salt, iter |-> Iterations]

\* app.py: the salt is the fixed string "cozy_journal_salt"
FixedSalt == <<"cozy_journal_salt">>

\* hash_password of each build; app ignores any salt and uses the fixed one
HashPassword(v, password, salt) ==
    IF v = "app_broken" THEN Pbkdf2(password, salt) ELSE Pbkdf2(password, FixedSalt)

\* The salt stored as the bytes themselves, not as their hex digits
StoredSaltRaw(v, salt) == IF v = "app_broken" THEN salt ELSE <<>>

\* what is stored in column salt: salt.hex() (app has no such column)
StoredSalt(v, salt) == IF v = "app_broken" THEN Hex(salt) ELSE <<>>

----------------------------------------------------------------------------
(* Table users *)

UserRow(id, username, salt, hash) ==
    [id |-> id, username |-> username, salt |-> salt, password_hash |-> hash]

\* SELECT ... FROM users WHERE username = ?
UsersNamed(us, username) == {r \in us : r.username = username}

\* A users table without the UNIQUE constraint on username
NoUniqueConstraint(us, username) == FALSE

\* username TEXT UNIQUE: would inserting a row with this username be refused?
UniqueViolation(us, username) == UsersNamed(us, username) # {}

\* The rows a fetchone() after the build's SELECT may give back for these
\* credentials: app_broken selects by username and compares the hash in Python,
\* app selects by username and hash
AuthRows(v, us, username, password) ==
    IF v = "app_broken"
    THEN UsersNamed(us, username)
    ELSE {r \in UsersNamed(us, username) :
              r.password_hash = HashPassword(v, password, <<>>)}

\* The id of whichever row has the username, with no look at the password
AuthResultsNoCompare(v, us, username, password) ==
    IF UsersNamed(us, username) = {} THEN {0}
    ELSE {r.id : r \in UsersNamed(us, username)}

\* What authenticate_user / verify_user may return: the user's id, or 0 for None.
\* app_broken hashes the password with the stored salt, bytes.fromhex(salt_hex),
\* and compares with the stored hash; app returns the id of the row selected.
AuthResults(v, us, username, password) ==
    IF AuthRows(v, us, username, password) = {}
    THEN {0}
    ELSE IF v = "app_broken"
    THEN {IF HashPassword(v, password, FromHex(r.salt)) = r.password_hash
          THEN r.id ELSE 0 : r \in AuthRows(v, us, username, password)}
    ELSE {r.id : r \in AuthRows(v, us, username, password)}

----------------------------------------------------------------------------
(* The record of a core call *)

NoCall ==
    [op |-> "none", fault |-> FALSE, user |-> 0, username |-> "", password |-> "",
     id |-> 0, title |-> <<>>, content |-> <<>>, term |-> <<>>,
     ok |-> FALSE, raised |-> FALSE, rid |-> 0, rows |-> <<>>, n |-> 0]

\* st.session_state.user is None / logged_in is False
NoUser == [id |-> 0, username |-> ""]

IdleCall == [pc |-> "idle", username |-> "", password |-> "", salt |-> <<>>,
             ret |-> "none", at |-> "none"]

\* The state after init_database on a new journal.db, in a build of `builds`
InitOf(builds) ==
    /\ variant \in builds
    /\ users = {}
    /\ entries = {}
    /\ seqUsers = 0
    /\ seqEntries = 0
    /\ now = 0
    /\ last = NoCall
    /\ session = [b \in Browsers |-> NoUser]
    /\ editing = [b \in Browsers |-> 0]
    /\ reg = [u \in {} |-> 0]
    /\ calls = [p \in Procs |-> IdleCall]
    /\ writer = 0
    /\ pending = {}
    /\ succ = [u \in Usernames |-> 0]

Init == InitOf(Variants)

----------------------------------------------------------------------------
(* Credential store *)

\* A users table made anew (CREATE TABLE without IF NOT EXISTS) before the row
\* goes in
UsersAfterInsertIntoNewTable(us, row) == {row}

\* INSERT INTO users (username, password_hash, salt) VALUES (?, ?, ?) into the
\* table that init_database creates only IF NOT EXISTS
UsersAfterInsert(us, row) == us \cup {row}

\* The history of successful registrations
Registered(r, username, password, id) ==
    [u \in DOMAIN r \cup {username} |->
        IF u = username THEN [password |-> password, id |-> id] ELSE r[u]]

\* create_user(username, password). `fault` is a failing storage call (database
\* locked, disk error): app_broken catches every exception and returns False,
\* app catches sqlite3.IntegrityError only and lets any other propagate.
\* app_broken looks the username up first; both builds' INSERT is refused by the
\* UNIQUE constraint.
CreateUser(username, password, salt, fault) ==
    LET taken == variant = "app_broken" /\ UsersNamed(users, username) # {}
        refused == UniqueViolation(users, username)
        done == ~fault /\ ~taken /\ ~refused
        row == UserRow(seqUsers + 1, username, StoredSalt(variant, salt),
                       HashPassword(variant, password, salt))
    IN  /\ done => seqUsers < MaxUsers
        /\ users' = IF done THEN UsersAfterInsert(users, row) ELSE users
        /\ seqUsers' = IF done THEN seqUsers + 1 ELSE seqUsers
        /\ reg' = IF done THEN Registered(reg, username, password, seqUsers + 1)
                  ELSE reg
        /\ last' = [NoCall EXCEPT !.op = "create_user", !.fault = fault,
                       !.username = username, !.password = password,
                       !.ok = done,
                       !.raised = fault /\ variant = "app"]
        /\ UNCHANGED <<variant, entries, seqEntries, now, raceVars>>

\* authenticate_user(username, password) of app_broken, verify_user of app.
\* app_broken returns None on any exception; verify_user has no handler.
AuthenticateUser(username, password, fault) ==
    /\ \E rid \in AuthResults(variant, users, username, password) :
          last' = [NoCall EXCEPT !.op = "authenticate", !.fault = fault,
                      !.username = username, !.password = password,
                      !.rid = IF fault THEN 0 ELSE rid,
                      !.ok = ~fault /\ rid # 0,
                      !.raised = fault /\ variant = "app"]
    /\ UNCHANGED <<variant, storeVars, now, reg, raceVars>>

----------------------------------------------------------------------------
(* Entry store *)

\* A row whose content column was bound to the title
EntryRowTitleTwice(id, uid, title, content, created, updated) ==
    [id |-> id, user_id |-> uid, title |-> title, content |-> title,
     created_at |-> created, updated_at |-> updated]

\* A row of journal_entries. app has the one timestamp column date_created, which
\* is created_at here; no operation of app changes a row, so its updated_at stays
\* equal to created_at.
EntryRow(id, uid, title, content, created, updated) ==
    [id |-> id, user_id |-> uid, title |-> title, content |-> content,
     created_at |-> created, updated_at |-> updated]

\* SELECT id, title, content, created_at, updated_at
Selected(e) ==
    [id |-> e.id, title |-> e.title, content |-> e.content,
     created_at |-> e.created_at, updated_at |-> e.updated_at]

\* The query without its WHERE user_id = ?
OwnedByAnyone(es, uid) == es

\* WHERE user_id = ?
OwnedBy(es, uid) == {e \in es : e.user_id = uid}

\* app_broken: AND (title LIKE ? OR content LIKE ?) with the pattern %term%
LikeFilter(es, term) ==
    {e \in es : Like(LikePattern(term), e.title) \/ Like(LikePattern(term), e.content)}

\* app, show_entries_list: search_term.lower() in e['title'].lower() or
\* search_term.lower() in e['content'].lower()
PageFilter(es, term) ==
    {e \in es : \/ SubstringOf(LowerText(term), LowerText(e.title))
                \/ SubstringOf(LowerText(term), LowerText(e.content))}

\* A search whose WHERE clause has lost `user_id = ?`
MatchingOfAnyUser(v, es, uid, term) ==
    IF term = <<>> THEN OwnedBy(es, uid)
    ELSE IF v = "app_broken" THEN LikeFilter(es, term)
    ELSE PageFilter(es, term)

\* The rows the query of get_user_entries matches; `if search_term:` is false
\* for the empty string
Matching(v, es, uid, term) ==
    IF term = <<>> THEN OwnedBy(es, uid)
    ELSE IF v = "app_broken" THEN LikeFilter(OwnedBy(es, uid), term)
    ELSE PageFilter(OwnedBy(es, uid), term)

\* ORDER BY updated_at DESC (app_broken), ORDER BY date_created DESC (app)
OrderKey(v, e) == IF v = "app_broken" THEN e.updated_at ELSE e.created_at

\* Every order of the rows S that ORDER BY key DESC may produce: SQL leaves the
\* order of rows with equal keys open
Orderings(v, S) ==
    {f \in [1..Cardinality(S) -> S] :
        /\ \A i, j \in 1..Cardinality(S) : i # j => f[i] # f[j]
        /\ \A i, j \in 1..Cardinality(S) : i < j => OrderKey(v, f[i]) >= OrderKey(v, f[j])}

\* What get_user_entries(user_id, search_term) may return (for app: followed by
\* the filter of the entries page)
GetUserEntries(v, es, uid, term) ==
    {[i \in 1..Len(f) |-> Selected(f[i])] : f \in Orderings(v, Matching(v, es, uid, term))}

\* id INTEGER PRIMARY KEY without AUTOINCREMENT: one more than the largest id
\* stored now
NextRowIdOfRowid(seq, ids) ==
    IF ids = {} THEN 1 ELSE (CHOOSE m \in ids : \A i \in ids : i <= m) + 1

\* id INTEGER PRIMARY KEY AUTOINCREMENT: one more than the largest id ever used,
\* which sqlite_sequence keeps
NextRowId(seq, ids) == seq + 1

\* create_journal_entry / add_journal_entry: INSERT INTO journal_entries
\* (user_id, title, content); both timestamps default to CURRENT_TIMESTAMP.
\* Any exception gives False.
CreateJournalEntry(uid, title, content, fault) ==
    LET id == NextRowId(seqEntries, {e.id : e \in entries})
    IN  /\ ~fault => seqEntries < MaxEntries
        /\ entries' = IF fault THEN entries
                      ELSE entries \cup {EntryRow(id, uid, title, content, now, now)}
        /\ seqEntries' = IF fault THEN seqEntries ELSE id
        /\ last' = [NoCall EXCEPT !.op = "create_entry", !.fault = fault, !.user = uid,
                       !.title = title, !.content = content, !.ok = ~fault,
                       !.id = IF fault THEN 0 ELSE id]
        /\ UNCHANGED <<variant, users, seqUsers, now, reg, raceVars>>

\* get_user_entries(user_id, search_term): app_broken returns [] on any exception,
\* app has no handler
ListEntries(uid, term, fault) ==
    /\ \E rows \in GetUserEntries(variant, entries, uid, term) :
          last' = [NoCall EXCEPT !.op = "list", !.fault = fault, !.user = uid,
                      !.term = term, !.ok = ~fault,
                      !.raised = fault /\ variant = "app",
                      !.rows = IF fault THEN <<>> ELSE rows]
    /\ UNCHANGED <<variant, storeVars, now, reg, raceVars>>

\* An UPDATE without its WHERE clause
UpdatedRowsEvery(es, id, title, content, t) ==
    {[e EXCEPT !.title = title, !.content = content, !.updated_at = t] : e \in es}

\* An UPDATE that sets created_at as well
UpdatedRowsTouchingCreated(es, id, title, content, t) ==
    {IF e.id = id
     THEN [e EXCEPT !.title = title, !.content = content,
                    !.created_at = t, !.updated_at = t]
     ELSE e : e \in es}

\* UPDATE journal_entries SET title = ?, content = ?, updated_at = CURRENT_TIMESTAMP
\* WHERE id = ?
UpdatedRows(es, id, title, content, t) ==
    {IF e.id = id
     THEN [e EXCEPT !.title = title, !.content = content, !.updated_at = t]
     ELSE e : e \in es}

\* update_journal_entry(entry_id, title, content), app_broken only. `uid` is the
\* user on whose behalf the call is made; the function does not take it.
UpdateJournalEntry(uid, id, title, content, fault) ==
    /\ variant = "app_broken"
    /\ entries' = IF fault THEN entries ELSE UpdatedRows(entries, id, title, content, now)
    /\ last' = [NoCall EXCEPT !.op = "update", !.fault = fault, !.user = uid, !.id = id,
                   !.title = title, !.content = content, !.ok = ~fault,
                   !.n = IF fault THEN 0 ELSE Cardinality({e \in entries : e.id = id})]
    /\ UNCHANGED <<variant, users, seqUsers, seqEntries, now, reg, raceVars>>

\* DELETE ... WHERE user_id = ?: every entry of the user
RowsAfterDeleteOfOwner(v, es, id, uid) == {e \in es : e.user_id # uid}

\* DELETE with the entry id bound to the column user_id
RowsAfterDeleteByUser(v, es, id, uid) == {e \in es : e.user_id # id}

\* app_broken: DELETE FROM journal_entries WHERE id = ?
\* app:        DELETE FROM journal_entries WHERE id = ? AND user_id = ?
RowsAfterDelete(v, es, id, uid) ==
    IF v = "app_broken" THEN {e \in es : e.id # id}
    ELSE {e \in es : ~(e.id = id /\ e.user_id = uid)}

\* delete_journal_entry(entry_id) of app_broken, delete_entry(entry_id, user_id)
\* of app. `uid` is the user on whose behalf the call is made.
DeleteEntry(uid, id, fault) ==
    /\ entries' = IF fault THEN entries ELSE RowsAfterDelete(variant, entries, id, uid)
    /\ last' = [NoCall EXCEPT !.op = "delete", !.fault = fault, !.user = uid, !.id = id,
                   !.ok = ~fault,
                   !.n = IF fault THEN 0 ELSE Cardinality(entries) - Cardinality(entries')]
    /\ UNCHANGED <<variant, users, seqUsers, seqEntries, now, reg, raceVars>>

\* An export that moves the entries out: the rows exported are deleted
ExportEntriesAndRemove(user, fault) ==
    /\ variant = "app_broken"
    /\ \E rows \in GetUserEntries(variant, entries, user.id, <<>>) :
          LET got == IF fault THEN <<>> ELSE rows
          IN  last' = [NoCall EXCEPT !.op = "export", !.fault = fault,
                          !.user = user.id, !.ok = got # <<>>,
                          !.username = IF got # <<>> THEN user.username ELSE "",
                          !.n = Len(got), !.rows = got]
    /\ entries' = IF fault THEN entries ELSE entries \ OwnedBy(entries, user.id)
    /\ UNCHANGED <<variant, users, seqUsers, seqEntries, now, reg, raceVars>>

\* The "Export All Entries" button of show_search_and_export, app_broken only:
\* entries = get_user_entries(user['id']), which is [] when the query fails; a
\* non-empty list gives the document {'user', 'exported_at', 'total_entries',
\* 'entries'} (last.ok: a document was made; last.username, last.n, last.rows:
\* its fields user, total_entries, entries), an empty one the message "No
\* entries to export yet!" and no document. `user` is st.session_state.user.
ExportEntries(user, fault) ==
    /\ variant = "app_broken"
    /\ \E rows \in GetUserEntries(variant, entries, user.id, <<>>) :
          LET got == IF fault THEN <<>> ELSE rows
          IN  last' = [NoCall EXCEPT !.op = "export", !.fault = fault,
                          !.user = user.id, !.ok = got # <<>>,
                          !.username = IF got # <<>> THEN user.username ELSE "",
                          !.n = Len(got), !.rows = got]
    /\ UNCHANGED <<variant, storeVars, now, reg, raceVars>>

\* The clock of CURRENT_TIMESTAMP passes to the next second
Tick ==
    /\ now < MaxClock
    /\ now' = now + 1
    /\ UNCHANGED <<variant, storeVars, last, pageVars, reg, raceVars>>

----------------------------------------------------------------------------
(* The core called in any order, one call at a time, with arguments drawn    *)
(* from the given sets: usernames, passwords, salts, user ids, entry ids,     *)
(* <<title, content>> pairs, search terms, and whether the storage call fails *)
(* The core functions never touch st.session_state.                           *)

CredentialStep(UN, PW, SL, FL) ==
    \/ \E u \in UN, p \in PW, s \in SL, f \in FL :
          CreateUser(u, p, s, f) /\ UNCHANGED pageVars
    \/ \E u \in UN, p \in PW, f \in FL :
          AuthenticateUser(u, p, f) /\ UNCHANGED pageVars

EntryStep(UI, EI, TX, TM, FL) ==
    \/ \E uid \in UI, tc \in TX, f \in FL :
          /\ seqEntries + 1 \in EI
          /\ CreateJournalEntry(uid, tc[1], tc[2], f) /\ UNCHANGED pageVars
    \/ \E uid \in UI, tm \in TM, f \in FL :
          ListEntries(uid, tm, f) /\ UNCHANGED pageVars
    \/ \E uid \in UI, id \in EI, tc \in TX, f \in FL :
          UpdateJournalEntry(uid, id, tc[1], tc[2], f) /\ UNCHANGED pageVars
    \/ \E uid \in UI, id \in EI, f \in FL :
          DeleteEntry(uid, id, f) /\ UNCHANGED pageVars

\* The credential store with every username and password and with failing
\* storage calls, beside an entry store of one entry
Next ==
    \/ CredentialStep(Usernames, Passwords, {<<10>>}, BOOLEAN)
    \/ EntryStep({1, 2}, {1}, {<<(<<"a">>), (<<"b">>)>>}, {<<>>}, BOOLEAN)

Spec == Init /\ [][Next]_vars

\* The entry store with every text and search term, while time passes. Its
\* functions take the user id as a plain number and never read the users table
\* (SQLite does not enforce the foreign key unless asked to), so the credential
\* store is left out. No storage call fails.
TitleContents ==
    {<< <<"A">>, <<"b">> >>, << <<"b">>, <<"%">> >>}
Terms == {<<>>, <<"a">>, <<"%">>, <<"_">>}

EntryNext ==
    \/ EntryStep({1, 2}, EntryIds, TitleContents, Terms, {FALSE})
    \/ Tick

EntrySpec == Init /\ [][EntryNext]_vars

----------------------------------------------------------------------------
(* The pages: each browser session has a st.session_state of its own; one      *)
(* handler runs at a time. A handler is the page's own conditions followed by  *)
(* the core call it makes.                                                     *)

\* What a successful login stores in st.session_state: app_broken the dict
\* {'id', 'username'} made from the row authenticate_user read, app the id
\* verify_user returned and the username typed
SessionUser(v, us, rid, username) ==
    IF v = "app_broken"
    THEN LET r == CHOOSE r \in us : r.id = rid
         IN  [id |-> r.id, username |-> r.username]
    ELSE [id |-> rid, username |-> username]

\* The session after a login form that stores what it got without looking at it
SessionAfterLoginUnchecked(v, us, s, c, username) ==
    [id |-> c.rid, username |-> username]

\* The session after the login form's call `c`: `if user:` (app: `if user_id:`)
\* stores the user, else the session is left as it was
SessionAfterLogin(v, us, s, c, username) ==
    IF c.ok THEN SessionUser(v, us, c.rid, username) ELSE s

\* An entries page that lists the entries of every user
ListedIdsOfAll(es, uid) == {e.id : e \in es}

\* The ids of the entries the entries page shows with their buttons: the page
\* loops over get_user_entries(id of the signed-in user)
ListedIds(es, uid) == {e.id : e \in OwnedBy(es, uid)}

\* A main() that shows the journal pages to everybody
SignedInAlways(b) == TRUE

\* main(): `if st.session_state.user is None` shows the login and signup forms,
\* the else branch the journal pages (app: `if not st.session_state.logged_in`)
SignedIn(b) == session[b] # NoUser

\* Form "signup": main() of app_broken calls create_user with whatever was typed;
\* show_login_page of app calls it when username, password and confirmation are
\* non-empty and the confirmation equals the password
SignupForm(b, username, password, salt, fault) ==
    /\ ~SignedIn(b)
    /\ variant = "app" => username # "" /\ password # ""
    /\ CreateUser(username, password, salt, fault)
    /\ UNCHANGED pageVars

\* Form "login": main() of app_broken calls authenticate_user with whatever was
\* typed, show_login_page of app calls verify_user when both fields are
\* non-empty; a user returned is stored in the session
LoginForm(b, username, password, fault) ==
    /\ ~SignedIn(b)
    /\ variant = "app" => username # "" /\ password # ""
    /\ AuthenticateUser(username, password, fault)
    /\ session' = [session EXCEPT ![b] =
                      SessionAfterLogin(variant, users, @, last', username)]
    /\ UNCHANGED editing

\* Button "Logout" of app_broken (st.session_state.user = None: editing_entry
\* stays) / "Sign Out" of app (st.session_state.clear())
Logout(b) ==
    /\ SignedIn(b)
    /\ session' = [session EXCEPT ![b] = NoUser]
    /\ editing' = IF variant = "app" THEN [editing EXCEPT ![b] = 0] ELSE editing
    /\ UNCHANGED <<variant, storeVars, now, last, reg, raceVars>>

\* show_new_entry_form: `if submitted and title and content`
NewEntryForm(b, title, content, fault) ==
    /\ SignedIn(b)
    /\ title # <<>> /\ content # <<>>
    /\ CreateJournalEntry(session[b].id, title, content, fault)
    /\ UNCHANGED pageVars

\* The entries page and the search box: get_user_entries for the signed-in user
EntriesPage(b, term, fault) ==
    /\ SignedIn(b)
    /\ ListEntries(session[b].id, term, fault)
    /\ UNCHANGED pageVars

\* Button "Edit" of a listed entry (app_broken):
\* st.session_state.editing_entry = entry
EditButton(b, id) ==
    /\ variant = "app_broken"
    /\ SignedIn(b)
    /\ id \in ListedIds(entries, session[b].id)
    /\ editing' = [editing EXCEPT ![b] = id]
    /\ UNCHANGED <<variant, storeVars, now, last, session, reg, raceVars>>

\* "Save Changes" of the edit form (app_broken). The form is shown under the
\* listed entry whose id is that of editing_entry; the title and the content
\* typed go to update_journal_entry as they are; editing_entry is deleted when
\* the update returned True.
EditForm(b, id, title, content, fault) ==
    /\ SignedIn(b)
    /\ editing[b] = id
    /\ id \in ListedIds(entries, session[b].id)
    /\ UpdateJournalEntry(session[b].id, id, title, content, fault)
    /\ editing' = IF last'.ok THEN [editing EXCEPT ![b] = 0] ELSE editing
    /\ UNCHANGED session

\* "Cancel" of the edit form: del st.session_state.editing_entry
CancelEdit(b) ==
    /\ SignedIn(b)
    /\ editing[b] \in ListedIds(entries, session[b].id)
    /\ editing' = [editing EXCEPT ![b] = 0]
    /\ UNCHANGED <<variant, storeVars, now, last, session, reg, raceVars>>

\* Button "Delete" of a listed entry
DeleteButton(b, id, fault) ==
    /\ SignedIn(b)
    /\ id \in ListedIds(entries, session[b].id)
    /\ DeleteEntry(session[b].id, id, fault)
    /\ UNCHANGED pageVars

\* Button "Export All Entries"
ExportButton(b, fault) ==
    /\ SignedIn(b)
    /\ ExportEntries(session[b], fault)
    /\ UNCHANGED pageVars

\* One browser session, with empty usernames, passwords, titles and contents
FormNames == {"", "al"}
FormPasswords == {"", "pw"}
FormTexts == {<< <<"a">>, <<"b">> >>, << <<>>, <<"b">> >>, << <<"a">>, <<>> >>}

FormNext ==
    \/ \E u \in FormNames, p \in FormPasswords : SignupForm(1, u, p, <<10>>, FALSE)
    \/ \E u \in FormNames, p \in FormPasswords : LoginForm(1, u, p, FALSE)
    \/ Logout(1)
    \/ \E tc \in FormTexts : NewEntryForm(1, tc[1], tc[2], FALSE)
    \/ EntriesPage(1, <<>>, FALSE)
    \/ \E id \in EntryIds : EditButton(1, id)
    \/ \E id \in EntryIds, tc \in FormTexts : EditForm(1, id, tc[1], tc[2], FALSE)
    \/ CancelEdit(1)
    \/ \E id \in EntryIds : DeleteButton(1, id, FALSE)
    \/ \E f \in BOOLEAN : ExportButton(1, f)

FormSpec == Init /\ [][FormNext]_vars

----------------------------------------------------------------------------
(* Several browser sessions at a time, and the login page of src/app.py       *)

\* Form "login_form" of src/app.py: `if username and password` shows "Welcome to
\* your cozy journal!", else "Please fill in all fields". Nothing is looked up
\* and nothing is stored. last.ok: the welcome was shown.
MockLoginForm(b, username, password) ==
    /\ variant = "mock"
    /\ last' = [NoCall EXCEPT !.op = "login_form", !.username = username,
                   !.password = password,
                   !.ok = (username # "" /\ password # "")]
    /\ UNCHANGED <<variant, storeVars, now, pageVars, reg, raceVars>>

SessionNames == {"al", "bo"}
SessionPasswords == {"pw"}
LoginNames == {"", "al", "bo"}
LoginPasswords == {"", "pw", "qx"}
SessionTexts == {<< <<"a">>, <<"b">> >>}
SessionEdits == {<< <<"b">>, <<"a">> >>}
SessionEntryIds == {1, 2}

SessionNext ==
    \/ \E b \in Browsers, u \in LoginNames, p \in LoginPasswords :
          MockLoginForm(b, u, p)
    \/ \E b \in Browsers, u \in SessionNames, p \in SessionPasswords :
          variant \in Variants /\ SignupForm(b, u, p, <<10>>, FALSE)
    \/ \E b \in Browsers, u \in LoginNames, p \in LoginPasswords :
          variant \in Variants /\ LoginForm(b, u, p, FALSE)
    \/ \E b \in Browsers : variant \in Variants /\ Logout(b)
    \/ \E b \in Browsers, tc \in SessionTexts :
          /\ variant \in Variants /\ seqEntries + 1 \in SessionEntryIds
          /\ NewEntryForm(b, tc[1], tc[2], FALSE)
    \/ \E b \in Browsers : variant \in Variants /\ EntriesPage(b, <<>>, FALSE)
    \/ \E b \in Browsers, id \in SessionEntryIds : EditButton(b, id)
    \/ \E b \in Browsers, id \in SessionEntryIds, tc \in SessionEdits :
          EditForm(b, id, tc[1], tc[2], FALSE)
    \/ \E b \in Browsers : variant \in Variants /\ CancelEdit(b)
    \/ \E b \in Browsers, id \in SessionEntryIds :
          variant \in Variants /\ DeleteButton(b, id, FALSE)
    \/ \E b \in Browsers : ExportButton(b, FALSE)

SessionSpec == InitOf(Builds) /\ [][SessionNext]_vars

----------------------------------------------------------------------------
(* The core and the export called directly, with empty texts, with a new salt *)
(* drawn by each create_user and with failing storage calls                    *)

\* os.urandom(32) is taken never to give the bytes of a stored salt again
FreshSalts(us) == {s \in Salts : \A r \in us : r.salt # Hex(s)}

CoreNames == {"al", "bo"}
CorePasswords == {"pw", "qx"}
CoreTexts == {<< <<"a">>, <<"b">> >>, << <<>>, <<"b">> >>, << <<"a">>, <<>> >>}
CoreTerms == {<<>>, <<"a">>}

CoreNext ==
    \/ CredentialStep(CoreNames, CorePasswords, FreshSalts(users), BOOLEAN)
    \/ EntryStep({1, 2}, {1}, CoreTexts, CoreTerms, BOOLEAN)
    \/ \E r \in users, f \in BOOLEAN :
          /\ ExportEntries([id |-> r.id, username |-> r.username], f)
          /\ UNCHANGED pageVars

CoreSpec == Init /\ [][CoreNext]_vars

----------------------------------------------------------------------------
(* Concurrent create_user calls, each on its own connection: the SELECT, the  *)
(* INSERT and the commit are separate steps. SQLite lets one connection write *)
(* at a time; the others see only committed rows.                             *)

Returned(c, ret, at) == [c EXCEPT !.pc = "idle", !.ret = ret, !.at = at]

\* create_user is entered: app_broken starts with the SELECT, app with the INSERT
RaceCall(p, username, password, salt) ==
    /\ calls[p].pc = "idle"
    /\ calls' = [calls EXCEPT ![p] =
                    [pc |-> IF variant = "app_broken" THEN "select" ELSE "insert",
                     username |-> username, password |-> password, salt |-> salt,
                     ret |-> "none", at |-> "none"]]
    /\ UNCHANGED <<variant, storeVars, now, last, pageVars, reg, writer, pending, succ>>

\* app_broken: SELECT id FROM users WHERE username = ?; return False on a row
RaceSelect(p) ==
    /\ calls[p].pc = "select"
    /\ calls' = [calls EXCEPT ![p] =
                    IF UsersNamed(users, calls[p].username) # {}
                    THEN Returned(calls[p], "False", "select")
                    ELSE [calls[p] EXCEPT !.pc = "insert"]]
    /\ UNCHANGED <<variant, storeVars, now, last, pageVars, reg, writer, pending, succ>>

\* INSERT INTO users: refused by the UNIQUE constraint (sqlite3.IntegrityError,
\* which both builds answer with False), or done and not yet committed
RaceInsert(p) ==
    /\ calls[p].pc = "insert"
    /\ writer = 0
    /\ IF UniqueViolation(users, calls[p].username)
       THEN /\ calls' = [calls EXCEPT ![p] = Returned(calls[p], "False", "insert")]
            /\ UNCHANGED <<writer, pending>>
       ELSE /\ seqUsers < MaxUsers
            /\ pending' = {UserRow(seqUsers + 1, calls[p].username,
                                   StoredSalt(variant, calls[p].salt),
                                   HashPassword(variant, calls[p].password, calls[p].salt))}
            /\ writer' = p
            /\ calls' = [calls EXCEPT ![p].pc = "commit"]
    /\ UNCHANGED <<variant, storeVars, now, last, pageVars, reg, succ>>

\* INSERT while another connection holds the write lock, once the busy timeout
\* is over: sqlite3.OperationalError (database is locked). app_broken returns
\* False, app lets it propagate.
RaceBusy(p) ==
    /\ calls[p].pc = "insert"
    /\ writer \notin {0, p}
    /\ calls' = [calls EXCEPT ![p] =
                    Returned(calls[p], IF variant = "app_broken" THEN "False" ELSE "raise",
                             "busy")]
    /\ UNCHANGED <<variant, storeVars, now, last, pageVars, reg, writer, pending, succ>>

\* conn.commit(); return True
RaceCommit(p) ==
    /\ calls[p].pc = "commit"
    /\ writer = p
    /\ users' = users \cup pending
    /\ seqUsers' = seqUsers + 1
    /\ pending' = {}
    /\ writer' = 0
    /\ calls' = [calls EXCEPT ![p] = Returned(calls[p], "True", "commit")]
    /\ succ' = [succ EXCEPT ![calls[p].username] = @ + 1]
    /\ reg' = Registered(reg, calls[p].username, calls[p].password, seqUsers + 1)
    /\ UNCHANGED <<variant, entries, seqEntries, now, last, pageVars>>

RaceNames == {"al", "bo"}
RacePasswords == {"pw", "qx"}

RaceNext ==
    \E p \in Procs :
        \/ \E u \in RaceNames, pw \in RacePasswords : RaceCall(p, u, pw, <<10>>)
        \/ RaceSelect(p)
        \/ RaceInsert(p)
        \/ RaceBusy(p)
        \/ RaceCommit(p)

RaceSpec == Init /\ [][RaceNext]_vars

----------------------------------------------------------------------------
(* What the claims read *)

\* The step taken is a call of `op` (Tick leaves `last` as it was)
IsCall(op) == last'.op = op /\ now' = now

\* C1: create_user with a non-empty username that no row has yet and a non-empty
\* password returns True and adds a row for that username; and authenticate with
\* a username and the password it was registered with, whatever calls came in
\* between, returns the id of the row that registration added.
C1_RegisterThenAuthenticate ==
    [][/\ ( /\ IsCall("create_user") /\ ~last'.fault
            /\ last'.username # "" /\ last'.password # ""
            /\ \A r \in users : r.username # last'.username )
          => /\ last'.ok /\ ~last'.raised
             /\ \E r \in users' \ users :
                   /\ r.username = last'.username
                   /\ users' = users \cup {r}
                   /\ reg'[last'.username] = [password |-> last'.password, id |-> r.id]
       /\ ( /\ IsCall("authenticate") /\ ~last'.fault
            /\ last'.username # "" /\ last'.password # ""
            /\ last'.username \in DOMAIN reg
            /\ last'.password = reg[last'.username].password )
          => /\ last'.ok /\ ~last'.raised
             /\ last'.rid = reg[last'.username].id
             /\ \E r \in users : r.id = last'.rid /\ r.username = last'.username
      ]_vars

\* C1's case: the second user registered authenticates after an entry was created
C1_Witness ==
    /\ last.op = "authenticate" /\ last.ok /\ last.rid = 2
    /\ last.username # "" /\ last.password # ""
    /\ last.username \in DOMAIN reg /\ reg[last.username].id = 2
    /\ entries # {}

\* C2: authenticate with a registered username and another password than the one
\* registered, and authenticate with a username no row has, both return None
\* (here rid = 0, ok = FALSE), without raising.
C2_InvalidCredentials ==
    ( /\ last.op = "authenticate" /\ ~last.fault
      /\ \/ \A r \in users : r.username # last.username
         \/ /\ last.username \in DOMAIN reg
            /\ last.password # reg[last.username].password )
    => (~last.ok /\ last.rid = 0 /\ ~last.raised)

\* C2's case: a registered user, a wrong non-empty password, None returned
C2_Witness ==
    /\ last.op = "authenticate" /\ ~last.fault
    /\ last.username \in DOMAIN reg
    /\ last.password # "" /\ reg[last.username].password # ""
    /\ last.password # reg[last.username].password
    /\ last.rid = 0

\* C3: create_user with a username a row already has returns False, leaves the
\* users table and its id sequence as they were, and afterwards the password of
\* the first registration authenticates and the password of the refused call,
\* when it is another one, does not.
C3_UsernameTaken ==
    [][( /\ IsCall("create_user") /\ ~last'.fault
         /\ \E r \in users : r.username = last'.username )
       => /\ ~last'.ok /\ ~last'.raised
          /\ users' = users /\ seqUsers' = seqUsers
          /\ last'.username \in DOMAIN reg
          /\ AuthResults(variant, users', last'.username, reg[last'.username].password)
                = {reg[last'.username].id}
          /\ last'.password # reg[last'.username].password
                => AuthResults(variant, users', last'.username, last'.password) = {0}
      ]_vars

\* C3's case: a second registration of a username, with another password, refused
C3_Witness ==
    /\ last.op = "create_user" /\ ~last.fault /\ ~last.ok
    /\ last.username \in DOMAIN reg
    /\ last.password # reg[last.username].password
    /\ Cardinality(users) = 2

\* C4: however concurrent create_user calls interleave their SELECT, INSERT and
\* commit, no username has two rows and no username has two calls that
\* returned True.
C4_UniqueUnderRace ==
    \A u \in Usernames :
        /\ Cardinality({r \in users : r.username = u}) <= 1
        /\ succ[u] <= 1

\* C4's case: two calls of app_broken for one username both found no row; one
\* committed and the other's INSERT was refused by the constraint
C4_Witness ==
    /\ variant = "app_broken"
    /\ \E p, q \in Procs :
          /\ p # q
          /\ calls[p].username = calls[q].username
          /\ calls[p].ret = "True"
          /\ calls[q].ret = "False" /\ calls[q].at = "insert"

\* C5: a delete called for entry e on behalf of a user who does not own e leaves
\* e in the table, with its title and content, and every listing of its owner's
\* entries still shows it.
C5_DeleteByOtherKeepsEntry ==
    [][\A e \in entries :
          ( /\ IsCall("delete") /\ ~last'.fault
            /\ last'.id = e.id /\ last'.user # e.user_id )
          => /\ e \in entries'
             /\ \A rows \in GetUserEntries(variant, entries', e.user_id, <<>>) :
                   \E i \in 1..Len(rows) :
                      /\ rows[i].id = e.id
                      /\ rows[i].title = e.title /\ rows[i].content = e.content
      ]_vars

\* C6: an update called for entry e on behalf of a user who does not own e leaves
\* e's title, content and updated timestamp as they were.
C6_UpdateByOtherKeepsEntry ==
    [][\A e \in entries :
          ( /\ IsCall("update") /\ ~last'.fault
            /\ last'.id = e.id /\ last'.user # e.user_id )
          => \E d \in entries' :
                /\ d.id = e.id
                /\ d.title = e.title /\ d.content = e.content
                /\ d.updated_at = e.updated_at
      ]_vars

\* The one entry of its owner with the oldest updated timestamp, among several
IsOldest(es, e) ==
    /\ \E d \in es : d.user_id = e.user_id /\ d.id # e.id
    /\ \A d \in es : (d.user_id = e.user_id /\ d.id # e.id) => e.updated_at < d.updated_at

\* C7, first half: the rows a listing returns are in non-increasing order of
\* updated timestamp.
ListingSorted ==
    last.op = "list" =>
        \A i, j \in 1..Len(last.rows) :
            i < j => last.rows[i].updated_at >= last.rows[j].updated_at

\* C7: the rows a listing returns are in non-increasing order of updated
\* timestamp; and once a user's entry with the oldest updated timestamp has been
\* updated, every listing of that user's entries has it first.
C7_UpdatedOldestComesFirst ==
    [][/\ ListingSorted'
       /\ \A e \in entries :
             ( /\ IsCall("update") /\ ~last'.fault
               /\ last'.id = e.id /\ last'.user = e.user_id
               /\ IsOldest(entries, e) )
             => \A rows \in GetUserEntries(variant, entries', e.user_id, <<>>) :
                   rows # <<>> /\ rows[1].id = e.id
      ]_vars

\* C8: a listing with no search term returns the rows of exactly the entries
\* whose owner is the user asked for, each once, with their fields.
C8_ListIsOwnersEntries ==
    ( last.op = "list" /\ ~last.fault /\ last.term = <<>> )
    => /\ \A e \in entries :
             Cardinality({i \in 1..Len(last.rows) : last.rows[i].id = e.id})
                = IF e.user_id = last.user THEN 1 ELSE 0
       /\ \A i \in 1..Len(last.rows) :
             \E e \in entries :
                /\ e.user_id = last.user /\ e.id = last.rows[i].id
                /\ e.title = last.rows[i].title /\ e.content = last.rows[i].content
                /\ e.created_at = last.rows[i].created_at
                /\ e.updated_at = last.rows[i].updated_at

\* C8's case: a user's entry listed while another user has an entry too
C8_Witness ==
    /\ last.op = "list" /\ last.term = <<>> /\ Len(last.rows) = 1
    /\ \E e \in entries : e.user_id # last.user
    /\ \E e \in entries : e.user_id = last.user

\* Does text s hold term t as a substring, letters compared without regard to case?
HasSubstring(s, t) ==
    \E k \in 1..(Len(s) - Len(t) + 1) :
        \A j \in 1..Len(t) : Lower(s[k + j - 1]) = Lower(t[j])

\* C9: a listing with a non-empty search term returns exactly the user's entries
\* whose title or content holds the term as a substring, letters compared
\* without regard to case and "%" and "_" standing for themselves.
C9_SearchIsLiteralSubstring ==
    ( last.op = "list" /\ ~last.fault /\ last.term # <<>> )
    => {last.rows[i].id : i \in 1..Len(last.rows)}
          = {e.id : e \in {d \in entries :
                              /\ d.user_id = last.user
                              /\ \/ HasSubstring(d.title, last.term)
                                 \/ HasSubstring(d.content, last.term)}}

\* C10: a delete of an id no entry has returns True and changes no table and no
\* id sequence; and after any delete, the same delete again would change nothing.
C10_DeleteAbsentIsNoOp ==
    [][( IsCall("delete") /\ ~last'.fault )
       => /\ last'.ok /\ ~last'.raised
          /\ (\A e \in entries : e.id # last'.id)
                => /\ entries' = entries /\ users' = users
                   /\ seqEntries' = seqEntries /\ seqUsers' = seqUsers
          /\ RowsAfterDelete(variant, entries', last'.id, last'.user) = entries'
      ]_vars

\* C10's case: an entry that was deleted is deleted again, while others are stored
C10_Witness ==
    /\ last.op = "delete" /\ last.ok /\ last.n = 0
    /\ last.id <= seqEntries
    /\ \A e \in entries : e.id # last.id
    /\ entries # {}

\* C11: an export for a user with n >= 0 entries (the query not failing) makes a
\* document whose entries are a listing of the user's entries with no search
\* term, element by element in that order, whose total_entries is n and whose
\* user is the username of that user.
C11_ExportEqualsListing ==
    ( last.op = "export" /\ ~last.fault )
    => /\ last.ok
       /\ last.rows \in GetUserEntries(variant, entries, last.user, <<>>)
       /\ last.n = Cardinality(OwnedBy(entries, last.user))
       /\ \E r \in users : r.id = last.user /\ r.username = last.username

\* C12: a call of create_journal_entry / add_journal_entry with an empty title
\* or an empty content, made directly and not through the form, returns the
\* failure value and inserts no row.
C12_EmptyEntryRefused ==
    [][( IsCall("create_entry") /\ (last'.title = <<>> \/ last'.content = <<>>) )
       => /\ ~last'.ok
          /\ entries' = entries /\ seqEntries' = seqEntries
      ]_vars

\* C13: a call of create_user with an empty username or an empty password, made
\* by the signup form of either build, returns the failure value and adds no
\* users row.
C13_EmptyCredentialsRefused ==
    [][( /\ IsCall("create_user") /\ session' = session
         /\ (last'.username = "" \/ last'.password = "") )
       => /\ ~last'.ok
          /\ users' = users /\ seqUsers' = seqUsers
      ]_vars

\* C14: no call of a core function lets an exception of the storage escape:
\* every call whose storage call failed returns a value.
C14_NoExceptionEscapes ==
    last.fault => ~last.raised

\* C15: a create_user whose storage call failed, for a username no row has, does
\* not return what it returns for a taken username (False, nothing raised); and
\* a listing whose query failed does not return what a listing of no entries
\* returns (the empty list, nothing raised).
C15_StorageFailureIsDistinct ==
    /\ ( /\ last.op = "create_user" /\ last.fault
         /\ UsersNamed(users, last.username) = {} )
       => ~(last.ok = FALSE /\ last.raised = FALSE)
    /\ ( last.op = "list" /\ last.fault )
       => ~(last.rows = <<>> /\ last.raised = FALSE)

\* C16: a row is inserted with created_at and updated_at both at the current
\* time; no later call changes its created_at; an update_journal_entry that
\* returned True leaves the row it names with updated_at at the current time;
\* and every stored row has updated_at >= created_at.
C16_Timestamps ==
    [][\A e \in entries' :
          /\ e.updated_at >= e.created_at
          /\ (\A o \in entries : o.id # e.id)
                => e.created_at = now /\ e.updated_at = now
          /\ \A o \in entries : o.id = e.id
                => /\ e.created_at = o.created_at
                   /\ ( IsCall("update") /\ last'.ok /\ last'.id = e.id )
                         => e.updated_at = now
      ]_vars

\* C16's case: an entry updated in a later second than the one it was created in
C16_Witness ==
    /\ last.op = "update" /\ last.ok /\ last.n = 1
    /\ \E e \in entries :
          e.id = last.id /\ e.created_at < e.updated_at /\ e.updated_at = now

\* C17: whatever is done through the new-entry form, the edit form and the
\* delete button, every stored journal entry has a non-empty title and a
\* non-empty content.
C17_StoredEntriesNonEmpty ==
    \A e \in entries : e.title # <<>> /\ e.content # <<>>

\* C18: a create_user that returned True adds one users row, of the username
\* given, and leaves every row there was as it was; every other call
\* (authenticate, the entry functions, the export, a create_user that did not
\* return True) leaves the users table as it was.
C18_UsersOnlyGrow ==
    [][IF IsCall("create_user") /\ last'.ok
       THEN \E r \in users' \ users :
               /\ users' = users \cup {r}
               /\ r.username = last'.username
               /\ \A o \in users : o.id # r.id
       ELSE users' = users
      ]_vars

\* C18's case: a second user was registered beside the first, and a
\* registration that failed followed
C18_Witness ==
    /\ Cardinality(users) = 2
    /\ last.op = "create_user" /\ ~last.ok
    /\ \E r \in users : r.username = last.username

\* C19: the export, a listing with or without a search term, and an
\* authentication leave the users table and the journal_entries table as they
\* were, whether or not their query fails.
C19_ReadOnly ==
    [][( IsCall("export") \/ IsCall("list") \/ IsCall("authenticate") )
       => /\ users' = users /\ seqUsers' = seqUsers
          /\ entries' = entries /\ seqEntries' = seqEntries
      ]_vars

\* C19's case: an export that made a document of a user's entry
C19_Witness ==
    /\ last.op = "export" /\ last.ok /\ last.n = 1
    /\ \E e \in entries : e.user_id = last.user /\ e.id = last.rows[1].id
    /\ users # {}

\* C20: any two users rows have different salts, and two users registered with
\* the same password have different password hashes.
C20_FreshSaltPerUser ==
    \A r1, r2 \in users :
        r1.id # r2.id
        => /\ r1.salt # r2.salt
           /\ reg[r1.username].password = reg[r2.username].password
                 => r1.password_hash # r2.password_hash

RowIds(rows) == {rows[i].id : i \in 1..Len(rows)}

\* C22: a create_journal_entry that returned True adds exactly one row, owned by
\* the user given and with the title and content given, under an id no stored
\* entry has; every entry stored before is still there, unchanged.
C22_CreateAddsOneEntry ==
    [][( IsCall("create_entry") /\ last'.ok )
       => \E e \in entries' \ entries :
             /\ entries' = entries \cup {e}
             /\ e.user_id = last'.user
             /\ e.title = last'.title /\ e.content = last'.content
             /\ e.id = last'.id
             /\ \A o \in entries : o.id # e.id
      ]_vars

\* C22's case: a second entry, of another user and with other texts, was added
\* beside the first
C22_Witness ==
    /\ last.op = "create_entry" /\ last.ok
    /\ \E e, o \in entries :
          /\ e.id = last.id /\ o.id # e.id
          /\ o.user_id # e.user_id /\ o.title # e.title /\ e.title # e.content

\* C23: a delete made for the owner of the entry named removes that entry and
\* no other; and an id that was assigned and has no entry never has one again,
\* in the table or in a listing.
C23_DeleteIsFinal ==
    [][/\ ( /\ IsCall("delete") /\ last'.ok
            /\ \E e \in entries : e.id = last'.id /\ e.user_id = last'.user )
          => entries' = {e \in entries : e.id # last'.id}
       /\ \A id \in 1..seqEntries :
             (\A e \in entries : e.id # id)
             => /\ \A e \in entries' : e.id # id
                /\ id \notin RowIds(last'.rows)
       /\ seqEntries' >= seqEntries
      ]_vars

\* C23's case: an entry was deleted by its owner, another entry was created
\* afterwards and a listing of the owner was made
C23_Witness ==
    /\ last.op = "list" /\ last.rows # <<>>
    /\ \E id \in 1..seqEntries :
          /\ \A e \in entries : e.id # id
          /\ \E e \in entries : e.id > id /\ e.user_id = last.user

\* C24: an update_journal_entry leaves the number of entries, and the id, owner
\* and created_at of each, as they were; it changes no field of an entry with
\* another id; with no entry of the id given it changes nothing. It never
\* touches the users table or an id sequence.
C24_UpdateFrame ==
    [][IsCall("update")
       => /\ \A e \in entries :
                \E d \in entries' :
                   /\ d.id = e.id /\ d.user_id = e.user_id
                   /\ d.created_at = e.created_at
                   /\ e.id # last'.id => d = e
          /\ Cardinality(entries') = Cardinality(entries)
          /\ (\A e \in entries : e.id # last'.id) => entries' = entries
          /\ users' = users /\ seqUsers' = seqUsers /\ seqEntries' = seqEntries
      ]_vars

\* C24's case: one of two entries was updated, in a later second and with other
\* texts, and the other entry is stored beside it
C24_Witness ==
    /\ last.op = "update" /\ last.ok /\ last.n = 1
    /\ \E e, o \in entries :
          /\ e.id = last.id /\ o.id # e.id
          /\ e.title = last.title /\ e.created_at < e.updated_at

\* C25: a login form shows its welcome only for a username and a password that
\* are those of a registered user, and a session holds a user only if that user
\* is registered.
C25_LoginOnlyForRegistered ==
    /\ ( last.op \in {"authenticate", "login_form"} /\ last.ok )
       => /\ \E r \in users : r.username = last.username
          /\ last.username \in DOMAIN reg
          /\ reg[last.username].password = last.password
    /\ \A b \in Browsers :
          SignedIn(b)
          => \E r \in users : r.id = session[b].id /\ r.username = session[b].username

\* The step is a call of `op` made by a page: a step that changes the state of
\* a page and leaves `last` as it was (Logout, "Edit", "Cancel") is no call
IsPageCall(op) ==
    last'.op = op /\ (last' # last \/ pageVars' = pageVars)

EntryOps == {"create_entry", "list", "update", "delete", "export"}

\* C26: an entry function (create, list, update, delete, export) is called only
\* for the user held by a browser session, a user with a users row; and a
\* session comes to hold a user only by an authentication that returned that
\* user, and holds it until its sign-out.
C26_EntryOpsOnlySignedIn ==
    [][/\ \A op \in EntryOps :
             IsPageCall(op)
             => \E b \in Browsers :
                   /\ session[b] # NoUser /\ session'[b] = session[b]
                   /\ last'.user = session[b].id
                   /\ \E r \in users :
                         r.id = session[b].id /\ r.username = session[b].username
       /\ \A b \in Browsers :
             ( session'[b] # session[b] /\ session'[b] # NoUser )
             => /\ session[b] = NoUser
                /\ last'.op = "authenticate" /\ last'.ok
                /\ last'.rid = session'[b].id
                /\ last'.username = session'[b].username
      ]_vars

\* C26's case: one browser session has signed out, and an entry was deleted for
\* the user signed in in the other
C26_Witness ==
    /\ last.op = "delete" /\ last.ok /\ last.n = 1
    /\ session[1] = NoUser /\ session[2] # NoUser
    /\ last.user = session[2].id
    /\ \E e \in entries : e.user_id # session[2].id

\* C27: a login that did not succeed (wrong password, unknown username, an
\* empty field) leaves every session as it was, signed out where it was
\* attempted, and leaves both tables as they were.
C27_FailedLoginChangesNothing ==
    [][( (IsPageCall("authenticate") \/ IsPageCall("login_form")) /\ ~last'.ok )
       => /\ session' = session /\ editing' = editing
          /\ \E b \in Browsers : session'[b] = NoUser
          /\ users' = users /\ seqUsers' = seqUsers
          /\ entries' = entries /\ seqEntries' = seqEntries
      ]_vars

\* C27's case: a login with a wrong password for a registered user failed while
\* another session is signed in and entries are stored
C27_Witness ==
    /\ last.op = "authenticate" /\ ~last.ok
    /\ last.username \in DOMAIN reg /\ last.password # reg[last.username].password
    /\ session[1] = NoUser /\ session[2] # NoUser
    /\ entries # {}

\* C28: an entry is changed or removed only by an update or a delete made for
\* its owner, who is signed in in some browser session, whatever the sessions
\* did before (an editing_entry left over from the user before included).
C28_OnlyOwnEntries ==
    [][\A e \in entries \ entries' :
          /\ last'.op \in {"update", "delete"}
          /\ last'.user = e.user_id
          /\ \E b \in Browsers : session[b] # NoUser /\ session[b].id = e.user_id
      ]_vars

\* C28's case: a session holds the editing_entry of an entry of the user before,
\* and the user now signed in there has changed or removed an entry of their own
C28_Witness ==
    \E b \in Browsers :
        /\ session[b] # NoUser
        /\ \E e \in entries : e.id = editing[b] /\ e.user_id # session[b].id
        /\ last.op \in {"update", "delete"} /\ last.ok /\ last.n = 1
        /\ last.user = session[b].id

\* C29: no two entries and no two users share an id; and a row that is added
\* gets an id larger than every id assigned before, the ids of rows since
\* deleted included (sqlite_sequence holds the largest id assigned).
C29_IdsNeverReused ==
    [][/\ \A e1, e2 \in entries' : e1.id = e2.id => e1 = e2
       /\ \A r1, r2 \in users' : r1.id = r2.id => r1 = r2
       /\ \A e \in entries' : e.id <= seqEntries'
       /\ \A r \in users' : r.id <= seqUsers'
       /\ seqEntries' >= seqEntries /\ seqUsers' >= seqUsers
       /\ \A e \in entries' : (\A o \in entries : o.id # e.id) => e.id > seqEntries
       /\ \A r \in users' : (\A o \in users : o.id # r.id) => r.id > seqUsers
      ]_vars

\* C29's case: the first entry was deleted and the entry created after it has
\* the next id; two users are registered
C29_Witness ==
    /\ seqEntries = 2 /\ seqUsers = 2
    /\ \E e \in entries : e.id = 2
    /\ \A e \in entries : e.id # 1
    /\ Cardinality(users) = 2

\* s is t with some elements left out, the others in t's order
RECURSIVE SubsequenceOf(_, _)
SubsequenceOf(s, t) ==
    IF s = <<>> THEN TRUE
    ELSE IF t = <<>> THEN FALSE
    ELSE IF Head(s) = Head(t) THEN SubsequenceOf(Tail(s), Tail(t))
    ELSE SubsequenceOf(s, Tail(t))

====
